---------------------------- MODULE Spec2Model ----------------------------
(***************************************************************************)
(* CITE-seq-Count: tag matching, chunk staging, result merging, UMI and    *)
(* cell-barcode correction and sparse-matrix generation, modelled from     *)
(* src/cite_seq_count/processing.py and src/cite_seq_count/io.py.          *)
(*                                                                         *)
(* Each stage of the pipeline has its own group of variables and its own   *)
(* specification (SpecMatch, SpecChunks, ...); a specification holds the   *)
(* variables of the other stages at their idle values.                     *)
(***************************************************************************)
EXTENDS Integers, Sequences, FiniteSets, TLC

VARIABLES
    \* find_best_match (processing.py:27-54)
    TAG_seq, tags, maximum_distance, fm_pc, fm_result,
    \* write_chunks_to_disk (io.py:171-277): arguments and environment
    read_lens,            \* number of FASTQ records of each (read1, read2) file pair
    args_chunk_size,      \* args.chunk_size (0: not set)
    n_threads,            \* args.n_threads
    first_n,              \* args.first_n
    cwd_is_temp,          \* whether the working directory is args.temp_path
    \* write_chunks_to_disk: locals
    num_chunk, temp_filename, input_queue, temp_files,
    R1_too_short, R2_too_short, total_reads_written, reads_written, total_reads,
    wc_pc, wc_pair, wc_line, wc_break,
    fs,                   \* the chunk files on disk: absolute path -> rows
    \* write_chunks_to_disk: history of the run
    wc_opened,            \* absolute paths opened for writing, in order
    wc_valid,             \* read pairs seen with both reads long enough
    wc_cap_at,            \* rows written when the first_n cap was first reached (0: not yet)
    \* map_reads (processing.py:81-167) and merge_results (processing.py:170-202)
    chunk_files,          \* the rows of each chunk file handed to the pool
    sliding_window,       \* mapping_input.sliding_window
    parallel_results,     \* the Per-Chunk Results, by chunk (<<>>: not mapped yet)
    mg_mapped,            \* the chunks whose map_reads has returned
    mg_order,             \* the chunks merge_results has gone through, in order
    merged_results, mg_umis_per_cell, reads_per_cell, merged_no_match,
    mg_pc,
    \* correct_cells_whitelist, find_true_to_false_map, collapse_cells
    \* (processing.py:284-318, 362-439)
    final_results, umis_per_cell, whitelist, collapsing_threshold, ab_map,
    true_to_false, corrected_barcodes,
    cc_pc,
    cc_real,              \* the real_barcode of the loop at line 301 (<<>>: between two)
    cc_fakes,             \* its fake barcodes still to fold
    cc_done,              \* the real barcodes gone through
    cc_created,           \* the cells created at line 304, a defaultdict with no factory
    \* the result set and the totals handed to correct_cells_whitelist
    cc_results0, cc_umis0,
    \* correct_umis (processing.py:215-256)
    cu_final_results,     \* final_results: cell barcode -> the dict of its TAG counters
    cu_cells,             \* cells = final_results.keys(), in the order of the dict
    max_umis,
    iter_checks_len,      \* the interpreter's dict iterator raises once it yields more
                          \* keys than the dict held at the start (CPython >= 3.8)
    corrected_umis, aberrant_cells,
    cu_pc,
    cu_ix,                \* position of the loop at line 235 in cu_cells
    cu_pos, cu_len,       \* the dict iterator of the loop at line 236: di_pos, len
    cu_results0,          \* the counters handed to correct_umis
    cu_first,             \* (cell, TAG) -> the clusters returned at its first visit
    cu_answers,           \* the clusterer's answers so far: counts -> clusters
    \* generate_sparse_matrices (processing.py:442-470)
    mx_final_results, ordered_tags_map, top_cells,
    umi_results_matrix, read_results_matrix,
    mx_i,                 \* i of the loop at line 461
    mx_pc,
    \* check_unmapped (processing.py:205-212)
    gu_no_match, gu_total_reads, gu_pc,
    gu_no_match0          \* the tally handed to check_unmapped

matchVars == <<TAG_seq, tags, maximum_distance, fm_pc, fm_result>>

chunkArgs == <<read_lens, args_chunk_size, n_threads, first_n, cwd_is_temp>>

chunkVars == <<chunkArgs, num_chunk, temp_filename, input_queue, temp_files,
               R1_too_short, R2_too_short, total_reads_written, reads_written,
               total_reads, wc_pc, wc_pair, wc_line, wc_break, fs,
               wc_opened, wc_valid, wc_cap_at>>

mergeVars == <<chunk_files, sliding_window, parallel_results, mg_mapped, mg_order,
               merged_results, mg_umis_per_cell, reads_per_cell, merged_no_match, mg_pc>>

cellVars == <<final_results, umis_per_cell, whitelist, collapsing_threshold, ab_map,
              true_to_false, corrected_barcodes, cc_pc, cc_real, cc_fakes, cc_done,
              cc_created, cc_results0, cc_umis0>>

umiVars == <<cu_final_results, cu_cells, max_umis, iter_checks_len, corrected_umis,
             aberrant_cells, cu_pc, cu_ix, cu_pos, cu_len, cu_results0, cu_first,
             cu_answers>>

matrixVars == <<mx_final_results, ordered_tags_map, top_cells, umi_results_matrix,
                read_results_matrix, mx_i, mx_pc>>

guardVars == <<gu_no_match, gu_total_reads, gu_pc, gu_no_match0>>

vars == <<matchVars, chunkVars, mergeVars, cellVars, umiVars, matrixVars, guardVars>>

\* what each stage leaves alone
notMatch == <<chunkVars, mergeVars, cellVars, umiVars, matrixVars, guardVars>>
notChunks == <<matchVars, mergeVars, cellVars, umiVars, matrixVars, guardVars>>
notMerge == <<chunkVars, cellVars, umiVars, matrixVars, guardVars, TAG_seq, fm_pc, fm_result>>
notCells == <<matchVars, chunkVars, mergeVars, umiVars, matrixVars, guardVars>>
notUmi == <<matchVars, chunkVars, mergeVars, cellVars, matrixVars, guardVars>>
notMatrix == <<matchVars, chunkVars, mergeVars, cellVars, umiVars, guardVars>>
notGuard == <<matchVars, chunkVars, mergeVars, cellVars, umiVars, matrixVars>>

---------------------------------------------------------------------------
(* Bounds of the model *)

\* longest tag sequence of a panel; reads are one base longer
MaxTagLen == 2
\* number of tags in a panel
MaxTags == 2
\* largest maximum_distance (max_error) tried
MaxDist == 2
\* number of (read1, read2) file pairs staged
MaxPairs == 2
\* FASTQ records per file pair
MaxReads == 3
\* largest args.chunk_size and args.n_threads tried
MaxChunkSize == 2
MaxThreads == 2
\* chemistry_def.umi_barcode_end and R2_max_length of the staged run
UmiBarcodeEnd == 2
R2MaxLength == 3
\* chunk files mapped and merged, and the rows they hold in total
MaxChunks == 2
MaxRows == 3
\* reads counted in the result set handed to cell-barcode correction
MaxCellReads == 2
\* largest collapsing_threshold tried
MaxThreshold == 1
\* reads counted in the result set handed to correct_umis, and the largest max_umis
MaxUmiReads == 3
MaxMaxUmis == 3
\* reads counted in the result set handed to generate_sparse_matrices
MaxMatrixReads == 3
\* largest total_reads handed to check_unmapped
MaxGuardReads == 200

---------------------------------------------------------------------------
(* Shared helpers *)

Bases == {"A", "C"}

\* all sequences over S of length n, and of length at most n
SeqsOfLen(S, n) == [1..n -> S]
SeqsUpTo(S, n) == UNION {SeqsOfLen(S, k) : k \in 0..n}

Min(S) == CHOOSE x \in S : \A y \in S : x <= y

RECURSIVE SumOver(_, _)
\* sum of f[x] over x in S
SumOver(f, S) ==
    IF S = {} THEN 0
    ELSE LET x == CHOOSE y \in S : TRUE IN f[x] + SumOver(f, S \ {x})

\* dictionaries as functions: d.get(k, dflt), d[k] = v, d.pop(k)
EmptyDict == <<>>
Get(d, k, dflt) == IF k \in DOMAIN d THEN d[k] ELSE dflt
Put(d, k, v) == (k :> v) @@ d
Del(d, k) == [x \in DOMAIN d \ {k} |-> d[x]]

\* Counter: c[k] += n, and c.update(other), which adds the counts
CounterInc(c, k, n) == Put(c, k, Get(c, k, 0) + n)
CounterUpdate(c, other) ==
    [k \in DOMAIN c \cup DOMAIN other |-> Get(c, k, 0) + Get(other, k, 0)]

\* python slice s[:n]
Take(s, n) == SubSeq(s, 1, IF n < Len(s) THEN n ELSE Len(s))

\* Levenshtein.hamming on two strings of the same length
Hamming(a, b) == Cardinality({i \in 1..Len(a) : a[i] # b[i]})

---------------------------------------------------------------------------
(* find_best_match, processing.py:27-54 *)

TagNames == <<"t1", "t2", "t3", "t4">>

\* a tag panel: named tuples (name, sequence) in panel order, names distinct
Panel(seqs) == [i \in 1..Len(seqs) |-> [name |-> TagNames[i], sequence |-> seqs[i]]]

\* tag sequences of at most maxLen bases, panels of at most maxTags tags, and reads
\* of maxLen + 1 bases
TagSeqs(maxLen) == UNION {SeqsOfLen(Bases, n) : n \in 1..maxLen}
Panels(maxTags, maxLen) ==
    {Panel(s) : s \in UNION {SeqsOfLen(TagSeqs(maxLen), k) : k \in 1..maxTags}}
Reads2(maxLen) == SeqsOfLen(Bases, maxLen + 1)

\* line 46: score = Levenshtein.hamming(tag.sequence, TAG_seq[: len(tag.sequence)])
Score(tag, seq) == Hamming(tag.sequence, Take(seq, Len(tag.sequence)))

\* mutant of Accepts: strict comparison with the best score
AcceptsStrict(score, best_score) == score < best_score

\* line 50: elif score <= best_score
Accepts(score, best_score) == score <= best_score

RECURSIVE FindBestMatchLoop(_, _, _, _, _)
\* the for loop of lines 45-54, from tag number i on
FindBestMatchLoop(seq, tgs, i, best_match, best_score) ==
    IF i > Len(tgs) THEN best_match                       \* line 54
    ELSE LET score == Score(tgs[i], seq) IN
         IF score = 0 THEN tgs[i].name                    \* lines 47-49
         ELSE IF Accepts(score, best_score)
              THEN tgs[i].name                            \* lines 50-53
              ELSE FindBestMatchLoop(seq, tgs, i + 1, best_match, best_score)

\* lines 43-44: best_match = "unmapped"; best_score = maximum_distance
find_best_match(seq, tgs, maxd) == FindBestMatchLoop(seq, tgs, 1, "unmapped", maxd)

ChunksIdle ==
    /\ read_lens = <<>>
    /\ args_chunk_size = 0
    /\ n_threads = 1
    /\ first_n = 0
    /\ cwd_is_temp = FALSE
    /\ num_chunk = 0
    /\ temp_filename = [dir |-> "none", idx |-> 0]
    /\ input_queue = <<>>
    /\ temp_files = <<>>
    /\ R1_too_short = 0
    /\ R2_too_short = 0
    /\ total_reads_written = 0
    /\ reads_written = 0
    /\ total_reads = 0
    /\ wc_pc = "idle"
    /\ wc_pair = 0
    /\ wc_line = 0
    /\ wc_break = FALSE
    /\ fs = <<>>
    /\ wc_opened = <<>>
    /\ wc_valid = 0
    /\ wc_cap_at = 0

MergeIdle ==
    /\ chunk_files = <<>>
    /\ sliding_window = FALSE
    /\ parallel_results = <<>>
    /\ mg_mapped = {}
    /\ mg_order = <<>>
    /\ merged_results = EmptyDict
    /\ mg_umis_per_cell = EmptyDict
    /\ reads_per_cell = EmptyDict
    /\ merged_no_match = EmptyDict
    /\ mg_pc = "idle"

CellsIdle ==
    /\ final_results = EmptyDict
    /\ umis_per_cell = EmptyDict
    /\ whitelist = {}
    /\ collapsing_threshold = 0
    /\ ab_map = {}
    /\ true_to_false = EmptyDict
    /\ corrected_barcodes = 0
    /\ cc_pc = "idle"
    /\ cc_real = <<>>
    /\ cc_fakes = {}
    /\ cc_done = {}
    /\ cc_created = {}
    /\ cc_results0 = EmptyDict
    /\ cc_umis0 = EmptyDict

UmiIdle ==
    /\ cu_final_results = EmptyDict
    /\ cu_cells = <<>>
    /\ max_umis = 0
    /\ iter_checks_len = TRUE
    /\ corrected_umis = 0
    /\ aberrant_cells = {}
    /\ cu_pc = "idle"
    /\ cu_ix = 0
    /\ cu_pos = 0
    /\ cu_len = 0
    /\ cu_results0 = EmptyDict
    /\ cu_first = EmptyDict
    /\ cu_answers = EmptyDict

MatrixIdle ==
    /\ mx_final_results = EmptyDict
    /\ ordered_tags_map = EmptyDict
    /\ top_cells = <<>>
    /\ umi_results_matrix = EmptyDict
    /\ read_results_matrix = EmptyDict
    /\ mx_i = 0
    /\ mx_pc = "idle"

GuardIdle ==
    /\ gu_no_match = EmptyDict
    /\ gu_total_reads = 0
    /\ gu_pc = "idle"
    /\ gu_no_match0 = EmptyDict

MatchIdle ==
    /\ TAG_seq = <<>>
    /\ tags = <<>>
    /\ maximum_distance = 0
    /\ fm_pc = "idle"
    /\ fm_result = "none"

InitMatch ==
    /\ TAG_seq \in Reads2(MaxTagLen)
    /\ tags \in Panels(MaxTags, MaxTagLen)
    /\ maximum_distance \in 0..MaxDist
    /\ fm_pc = "call"
    /\ fm_result = "none"
    /\ ChunksIdle /\ MergeIdle /\ CellsIdle /\ UmiIdle /\ MatrixIdle /\ GuardIdle

FindBestMatchCall ==
    /\ fm_pc = "call"
    /\ fm_result' = find_best_match(TAG_seq, tags, maximum_distance)
    /\ fm_pc' = "returned"
    /\ UNCHANGED <<TAG_seq, tags, maximum_distance>>
    /\ UNCHANGED notMatch

NextMatch == FindBestMatchCall

SpecMatch == InitMatch /\ [][NextMatch]_vars

\* the tags of the panel within maximum_distance of the read
Qualifying == {i \in 1..Len(tags) : Score(tags[i], TAG_seq) <= maximum_distance}

C5_GloballyBest ==
    (fm_pc = "returned" /\ Qualifying # {}) =>
        \E i \in Qualifying :
            /\ fm_result = tags[i].name
            /\ \A j \in Qualifying : Score(tags[i], TAG_seq) <= Score(tags[j], TAG_seq)

---------------------------------------------------------------------------
(* write_chunks_to_disk, io.py:171-277 *)

\* round(a / b) of Python 3 for a >= 0, b > 0: halves go to the even neighbour
PyRound(a, b) ==
    LET q == a \div b
        r == a % b
    IN IF 2 * r < b THEN q
       ELSE IF 2 * r > b THEN q + 1
       ELSE IF q % 2 = 0 THEN q ELSE q + 1

\* a first_n no run of the model reaches
NoCap == MaxPairs * MaxReads + 1

\* the sequence lines of one FASTQ record: the number of bases of read 1 and read 2
ReadKinds ==
    {[r1 |-> UmiBarcodeEnd, r2 |-> R2MaxLength],
     [r1 |-> UmiBarcodeEnd - 1, r2 |-> R2MaxLength],
     [r1 |-> UmiBarcodeEnd, r2 |-> R2MaxLength - 1],
     [r1 |-> UmiBarcodeEnd, r2 |-> R2MaxLength - 2]}

\* lines 218-219: read1 is stripped before its length is taken
Read1Len(read) == read.r1

\* line 223: read2 is the line as read from the text file, with its line terminator
Read2Len(read) == read.r2 + 1

\* line 212: os.path.join(temp_path, "temp_{}".format(num_chunk))
JoinedName(n) == [dir |-> "temp_path", idx |-> n]

\* line 259: "temp_{}".format(num_chunk), relative to the working directory
BareName(n) == [dir |-> "cwd", idx |-> n]

\* os.path.abspath of a chunk file name
AbsPath(name) == IF cwd_is_temp THEN [dir |-> "temp_path", idx |-> name.idx] ELSE name

\* open(name, "w"): the file is created, or truncated when it exists
OpenW(files, name) == (AbsPath(name) :> <<>>) @@ files

\* chunked_file_object.write(row) on the file opened as name
WriteRow(files, name, row) ==
    [files EXCEPT ![AbsPath(name)] = Append(@, row)]

InitChunks ==
    /\ read_lens \in UNION {SeqsOfLen(0..MaxReads, k) : k \in 1..MaxPairs}
    /\ args_chunk_size \in 0..MaxChunkSize
    /\ n_threads \in (IF args_chunk_size = 0 THEN 1..MaxThreads ELSE {1})
    /\ first_n \in 1..NoCap
    /\ cwd_is_temp \in BOOLEAN
    /\ total_reads = SumOver(read_lens, DOMAIN read_lens)
    /\ num_chunk = 0
    /\ temp_filename = [dir |-> "none", idx |-> 0]
    /\ input_queue = <<>>
    /\ temp_files = <<>>
    /\ R1_too_short = 0
    /\ R2_too_short = 0
    /\ total_reads_written = 0
    /\ reads_written = 0
    /\ wc_pc = "for_pairs"
    /\ wc_pair = 0
    /\ wc_line = 0
    /\ wc_break = FALSE
    /\ fs = <<>>
    /\ wc_opened = <<>>
    /\ wc_valid = 0
    /\ wc_cap_at = 0
    /\ MatchIdle /\ MergeIdle /\ CellsIdle /\ UmiIdle /\ MatrixIdle /\ GuardIdle

\* lines 190-191: the chunk size in force
chunk_size ==
    IF args_chunk_size = 0
    THEN PyRound(SumOver(read_lens, DOMAIN read_lens), n_threads) + 1
    ELSE args_chunk_size

\* lines 206-215: the next file pair is opened, and with it a chunk file
OpenPair ==
    /\ wc_pc = "for_pairs"
    /\ wc_pair < Len(read_lens)
    /\ wc_pair' = wc_pair + 1
    /\ wc_line' = 0
    /\ wc_break' = FALSE
    /\ temp_filename' = JoinedName(num_chunk)
    /\ fs' = OpenW(fs, JoinedName(num_chunk))
    /\ wc_opened' = Append(wc_opened, AbsPath(JoinedName(num_chunk)))
    /\ temp_files' = Append(temp_files, AbsPath(JoinedName(num_chunk)))
    /\ reads_written' = 0
    /\ wc_pc' = "lines"
    /\ UNCHANGED <<chunkArgs, num_chunk, input_queue, R1_too_short, R2_too_short,
                   total_reads_written, total_reads, wc_valid, wc_cap_at>>
    /\ UNCHANGED notChunks

\* lines 247: the chunk is full
ChunkFull(written) == written % chunk_size = 0

\* line 263: the first_n cap is reached
CapReached(written) == written >= first_n

\* lines 216-265: one record of the file pair
ProcessRead(read) ==
    /\ wc_pc = "lines"
    /\ ~wc_break
    /\ wc_line < read_lens[wc_pair]
    /\ wc_line' = wc_line + 1
    /\ wc_valid' = wc_valid + (IF read.r1 >= UmiBarcodeEnd /\ read.r2 >= R2MaxLength
                               THEN 1 ELSE 0)
    /\ IF Read1Len(read) < UmiBarcodeEnd
       THEN /\ R1_too_short' = R1_too_short + 1                         \* lines 219-222
            /\ UNCHANGED <<R2_too_short, fs, reads_written, total_reads_written,
                           input_queue, num_chunk, temp_filename, temp_files,
                           wc_opened, total_reads, wc_break, wc_cap_at>>
       ELSE IF Read2Len(read) < R2MaxLength
       THEN /\ R2_too_short' = R2_too_short + 1                         \* lines 223-226
            /\ UNCHANGED <<R1_too_short, fs, reads_written, total_reads_written,
                           input_queue, num_chunk, temp_filename, temp_files,
                           wc_opened, total_reads, wc_break, wc_cap_at>>
       ELSE LET row == [pair |-> wc_pair, line |-> wc_line + 1, r2 |-> read.r2]
                written == fs[AbsPath(temp_filename)]
                rotate == ChunkFull(reads_written + 1)
                next_name == BareName(num_chunk + 1)
            IN /\ total_reads_written' = total_reads_written + 1        \* line 246
               /\ IF rotate                                             \* lines 247-262
                  THEN /\ input_queue' = Append(input_queue, temp_filename)
                       /\ num_chunk' = num_chunk + 1
                       /\ temp_filename' = next_name
                       /\ fs' = OpenW(WriteRow(fs, temp_filename, row), next_name)
                       /\ wc_opened' = Append(wc_opened, AbsPath(next_name))
                       /\ temp_files' = Append(temp_files, AbsPath(next_name))
                       /\ reads_written' = 0
                  ELSE /\ fs' = WriteRow(fs, temp_filename, row)
                       /\ reads_written' = reads_written + 1            \* line 245
                       /\ UNCHANGED <<input_queue, num_chunk, temp_filename,
                                      temp_files, wc_opened>>
               /\ IF CapReached(total_reads_written + 1)                \* lines 263-265
                  THEN /\ total_reads' = total_reads_written + 1
                       /\ wc_break' = TRUE
                       /\ wc_cap_at' = IF wc_cap_at = 0 THEN total_reads_written + 1
                                       ELSE wc_cap_at
                  ELSE UNCHANGED <<total_reads, wc_break, wc_cap_at>>
               /\ UNCHANGED <<R1_too_short, R2_too_short>>
    /\ UNCHANGED <<chunkArgs, wc_pc, wc_pair>>
    /\ UNCHANGED notChunks

ReadRecord == \E read \in ReadKinds : ProcessRead(read)

\* lines 267-276: after the records of a pair (or the break), the open chunk file
\* is registered and closed
ClosePair ==
    /\ wc_pc = "lines"
    /\ wc_break \/ wc_line = read_lens[wc_pair]
    /\ input_queue' = Append(input_queue, temp_filename)
    /\ wc_pc' = "for_pairs"
    /\ UNCHANGED <<chunkArgs, num_chunk, temp_filename, temp_files, R1_too_short,
                   R2_too_short, total_reads_written, reads_written, total_reads,
                   wc_pair, wc_line, wc_break, fs, wc_opened, wc_valid, wc_cap_at>>
    /\ UNCHANGED notChunks

\* line 277
ReturnChunks ==
    /\ wc_pc = "for_pairs"
    /\ wc_pair = Len(read_lens)
    /\ wc_pc' = "returned"
    /\ UNCHANGED <<chunkArgs, num_chunk, temp_filename, input_queue, temp_files,
                   R1_too_short, R2_too_short, total_reads_written, reads_written,
                   total_reads, wc_pair, wc_line, wc_break, fs, wc_opened, wc_valid,
                   wc_cap_at>>
    /\ UNCHANGED notChunks

NextChunks == OpenPair \/ ReadRecord \/ ClosePair \/ ReturnChunks

SpecChunks == InitChunks /\ [][NextChunks]_vars
\* C2: with a first_n cap, staging stops as soon as first_n rows are written: never
\* more than first_n rows are written, and when the files hold more than first_n
\* valid read pairs the rows written and the returned total read count are first_n.
C2_StopsAtFirstN ==
    /\ total_reads_written <= first_n
    /\ (wc_pc = "returned" /\ wc_valid > first_n) =>
           (total_reads_written = first_n /\ total_reads = first_n)

\* C3: every chunk file opened for writing has a path distinct from every chunk
\* file opened earlier in the run.
C3_DistinctChunkPaths ==
    \A i, j \in DOMAIN wc_opened : i # j => wc_opened[i] # wc_opened[j]

\* ceil(n / c)
CeilDiv(n, c) == (n + c - 1) \div c

\* the rows of the registered chunk files, task after task
RECURSIVE QueuedRows(_)
QueuedRows(k) ==
    IF k = 0 THEN <<>> ELSE QueuedRows(k - 1) \o fs[AbsPath(input_queue[k])]

\* C6: one file pair with N >= 1 valid read pairs, chunk size c and no cap reached
\* gives ceil(N/c) Mapping Tasks whose files hold the valid rows in input order,
\* c rows each and the rest in the last; no chunk is empty or larger than c, and
\* temp_files is as long as the task list.
C6_ChunkRotation ==
    (/\ wc_pc = "returned"
     /\ Len(read_lens) = 1
     /\ wc_valid >= 1
     /\ wc_cap_at = 0) =>
        LET K == CeilDiv(wc_valid, chunk_size)
            rows == QueuedRows(Len(input_queue))
        IN /\ Len(input_queue) = K
           /\ Len(temp_files) = Len(input_queue)
           /\ \A k \in 1..Len(input_queue) :
                  LET n == Len(fs[AbsPath(input_queue[k])])
                  IN /\ n >= 1
                     /\ n <= chunk_size
                     /\ n = (IF k < K THEN chunk_size
                             ELSE wc_valid - chunk_size * (K - 1))
           /\ Len(rows) = wc_valid
           /\ \A i \in 1..Len(rows) : rows[i].r2 >= R2MaxLength
           /\ \A i, j \in 1..Len(rows) : i < j => rows[i].line < rows[j].line

\* C12: a read pair whose read 2 has fewer than R2_max_length bases is discarded
\* and no row is written for it: every row of every chunk file comes from a read 2
\* of at least R2_max_length bases (the line terminator not counted).
C12_ShortRead2Discarded ==
    \A path \in DOMAIN fs : \A i \in DOMAIN fs[path] : fs[path][i].r2 >= R2MaxLength


---------------------------------------------------------------------------
(* map_reads, processing.py:81-167 *)

\* line 76: tag.sequence in TAG_seq
Contains(seq, sub) ==
    \E k \in 0..(Len(seq) - Len(sub)) : SubSeq(seq, k + 1, k + Len(sub)) = sub

RECURSIVE FindBestMatchShiftLoop(_, _, _)
\* lines 74-78
FindBestMatchShiftLoop(seq, tgs, i) ==
    IF i > Len(tgs) THEN "unmapped"
    ELSE IF Contains(seq, tgs[i].sequence) THEN tgs[i].name
    ELSE FindBestMatchShiftLoop(seq, tgs, i + 1)

find_best_match_shift(seq, tgs) == FindBestMatchShiftLoop(seq, tgs, 1)

\* lines 117-142: one row (cell_barcode, UMI, read2) of the chunk file
MapRow(acc, row, tgs, maxd, sliding) ==
    LET best_match == IF sliding THEN find_best_match_shift(row.read2, tgs)
                      ELSE find_best_match(row.read2, tgs, maxd)
        cell == Get(acc.results, row.cell_barcode, EmptyDict)       \* lines 131-132
        counter == Get(cell, best_match, EmptyDict)
    IN [results |-> Put(acc.results, row.cell_barcode,
                        Put(cell, best_match, CounterInc(counter, row.UMI, 1))),
        no_match |-> IF best_match = "unmapped"                     \* lines 141-142
                     THEN CounterInc(acc.no_match, row.read2, 1)
                     ELSE acc.no_match]

RECURSIVE MapRows(_, _, _, _, _, _)
MapRows(acc, rows, i, tgs, maxd, sliding) ==
    IF i > Len(rows) THEN acc
    ELSE MapRows(MapRow(acc, rows[i], tgs, maxd, sliding), rows, i + 1, tgs, maxd, sliding)

\* lines 108-109 and 167: (results, no_match) of one chunk file
map_reads(rows, tgs, maxd, sliding) ==
    MapRows([results |-> EmptyDict, no_match |-> EmptyDict], rows, 1, tgs, maxd, sliding)

---------------------------------------------------------------------------
(* merge_results, processing.py:170-202 *)

\* mutant of Accumulate: the merged count is overwritten by the chunk's
AccumulateOverwrite(old, count) == count

\* line 196: merged_results[cell_barcode][TAG][UMI] += mapped[cell_barcode][TAG][UMI]
Accumulate(old, count) == old + count

\* mutant of UmiTally: each UMI of the counter is tallied once
UmiTallyOnce(counter) == 1

\* line 199, inside the UMI loop: umis_per_cell[cell_barcode] += len(mapped[cell_barcode][TAG])
UmiTally(counter) == Cardinality(DOMAIN counter)

\* mutant of ReadTally: one read per UMI, whatever its count
ReadTallyOne(counter, UMI) == 1

\* line 200: reads_per_cell[cell_barcode] += mapped[cell_barcode][TAG][UMI]
ReadTally(counter, UMI) == counter[UMI]

\* lines 196-200: one UMI of a non-empty counter
MergeUmi(acc, cell_barcode, TAG, UMI, counter) ==
    LET cell == acc.merged_results[cell_barcode]
        merged == Get(cell, TAG, EmptyDict)
    IN [acc EXCEPT
          !.merged_results =
              Put(@, cell_barcode,
                  Put(cell, TAG, Put(merged, UMI, Accumulate(Get(merged, UMI, 0), counter[UMI])))),
          !.umis_per_cell = CounterInc(@, cell_barcode, UmiTally(counter)),
          !.reads_per_cell = CounterInc(@, cell_barcode, ReadTally(counter, UMI))]

RECURSIVE MergeUmis(_, _, _, _, _)
\* line 195: for UMI in mapped[cell_barcode][TAG]
MergeUmis(acc, cell_barcode, TAG, counter, todo) ==
    IF todo = {} THEN acc
    ELSE LET UMI == CHOOSE u \in todo : TRUE
         IN MergeUmis(MergeUmi(acc, cell_barcode, TAG, UMI, counter),
                      cell_barcode, TAG, counter, todo \ {UMI})

RECURSIVE MergeTags(_, _, _, _)
\* lines 192-194: for TAG in mapped[cell_barcode], empty counters skipped
MergeTags(acc, cell_barcode, cell, todo) ==
    IF todo = {} THEN acc
    ELSE LET TAG == CHOOSE t \in todo : TRUE
             next == IF DOMAIN cell[TAG] # {}
                     THEN MergeUmis(acc, cell_barcode, TAG, cell[TAG], DOMAIN cell[TAG])
                     ELSE acc
         IN MergeTags(next, cell_barcode, cell, todo \ {TAG})

RECURSIVE MergeCells(_, _, _)
\* lines 189-191: for cell_barcode in mapped
MergeCells(acc, mapped, todo) ==
    IF todo = {} THEN acc
    ELSE LET cell_barcode == CHOOSE c \in todo : TRUE
             created == IF cell_barcode \in DOMAIN acc.merged_results THEN acc
                        ELSE [acc EXCEPT !.merged_results = Put(@, cell_barcode, EmptyDict)]
         IN MergeCells(MergeTags(created, cell_barcode, mapped[cell_barcode],
                                 DOMAIN mapped[cell_barcode]),
                       mapped, todo \ {cell_barcode})

\* lines 186-201: one chunk of parallel_results
MergeChunk(acc, chunk) ==
    LET merged == MergeCells(acc, chunk.results, DOMAIN chunk.results)
    IN [merged EXCEPT !.merged_no_match = CounterUpdate(@, chunk.no_match)]

\* lines 182-185
MergeStart ==
    [merged_results |-> EmptyDict, merged_no_match |-> EmptyDict,
     umis_per_cell |-> EmptyDict, reads_per_cell |-> EmptyDict]

RECURSIVE MergeFrom(_, _, _)
MergeFrom(acc, results, i) ==
    IF i > Len(results) THEN acc
    ELSE MergeFrom(MergeChunk(acc, results[i]), results, i + 1)

\* merge_results(parallel_results), the chunks taken in list order
merge_results(results) == MergeFrom(MergeStart, results, 1)

\* the rows staged: two cells, two UMIs, and reads that match the tag exactly
\* (AAA), within one mismatch but not as a substring (ACA), or not at all (CCA)
MergePanel == Panel(<< <<"A", "A">> >>)

Rows ==
    {[cell_barcode |-> <<"A", "A">>, UMI |-> "u1", read2 |-> <<"A", "A", "A">>],
     [cell_barcode |-> <<"A", "A">>, UMI |-> "u2", read2 |-> <<"A", "A", "A">>],
     [cell_barcode |-> <<"A", "A">>, UMI |-> "u1", read2 |-> <<"C", "C", "A">>],
     [cell_barcode |-> <<"A", "C">>, UMI |-> "u1", read2 |-> <<"A", "C", "A">>]}

\* the ways to cut a stream of n rows into k consecutive chunk files
Cuts(n, k) == {c \in [0..k -> 0..n] :
                 /\ c[0] = 0
                 /\ c[k] = n
                 /\ \A i \in 1..k : c[i - 1] <= c[i]}

\* the chunk files: the stream cut at c
ChunksOf(stream, c, k) == [i \in 1..k |-> SubSeq(stream, c[i - 1] + 1, c[i])]

InitMerge ==
    /\ \E stream \in SeqsUpTo(Rows, MaxRows), k \in 1..MaxChunks :
           \E c \in Cuts(Len(stream), k) : chunk_files = ChunksOf(stream, c, k)
    /\ sliding_window \in BOOLEAN
    /\ tags = MergePanel
    /\ maximum_distance = 1
    /\ TAG_seq = <<>>
    /\ fm_pc = "idle"
    /\ fm_result = "none"
    /\ parallel_results = [i \in DOMAIN chunk_files |-> <<>>]
    /\ mg_mapped = {}
    /\ mg_order = <<>>
    /\ merged_results = EmptyDict
    /\ mg_umis_per_cell = EmptyDict
    /\ reads_per_cell = EmptyDict
    /\ merged_no_match = EmptyDict
    /\ mg_pc = "map"
    /\ ChunksIdle /\ CellsIdle /\ UmiIdle /\ MatrixIdle /\ GuardIdle

\* a worker of the pool maps one chunk file
MapChunk(i) ==
    /\ mg_pc = "map"
    /\ i \notin mg_mapped
    /\ parallel_results' =
           [parallel_results EXCEPT
              ![i] = map_reads(chunk_files[i], tags, maximum_distance, sliding_window)]
    /\ mg_mapped' = mg_mapped \cup {i}
    /\ mg_pc' = IF mg_mapped' = DOMAIN chunk_files THEN "merge" ELSE "map"
    /\ UNCHANGED <<chunk_files, sliding_window, mg_order, merged_results,
                   mg_umis_per_cell, reads_per_cell, merged_no_match>>
    /\ UNCHANGED <<tags, maximum_distance>>
    /\ UNCHANGED notMerge

MapSomeChunk == \E i \in DOMAIN chunk_files : MapChunk(i)

\* merge_results takes the next Per-Chunk Result; the list may hold the results in
\* any order
MergeTake(i) ==
    /\ mg_pc = "merge"
    /\ \A k \in DOMAIN mg_order : mg_order[k] # i
    /\ LET acc == MergeChunk([merged_results |-> merged_results,
                              merged_no_match |-> merged_no_match,
                              umis_per_cell |-> mg_umis_per_cell,
                              reads_per_cell |-> reads_per_cell],
                             parallel_results[i])
       IN /\ merged_results' = acc.merged_results
          /\ merged_no_match' = acc.merged_no_match
          /\ mg_umis_per_cell' = acc.umis_per_cell
          /\ reads_per_cell' = acc.reads_per_cell
    /\ mg_order' = Append(mg_order, i)
    /\ UNCHANGED <<chunk_files, sliding_window, parallel_results, mg_mapped, mg_pc>>
    /\ UNCHANGED <<tags, maximum_distance>>
    /\ UNCHANGED notMerge

MergeSomeChunk == \E i \in DOMAIN chunk_files : MergeTake(i)

\* line 202
MergeReturn ==
    /\ mg_pc = "merge"
    /\ Len(mg_order) = Len(chunk_files)
    /\ mg_pc' = "returned"
    /\ UNCHANGED <<chunk_files, sliding_window, parallel_results, mg_mapped, mg_order,
                   merged_results, mg_umis_per_cell, reads_per_cell, merged_no_match>>
    /\ UNCHANGED <<tags, maximum_distance>>
    /\ UNCHANGED notMerge

NextMerge == MapSomeChunk \/ MergeSomeChunk \/ MergeReturn

SpecMerge == InitMerge /\ [][NextMerge]_vars

\* C8: whatever the order in which the Per-Chunk Results are merged, merged_results,
\* umis_per_cell, reads_per_cell and merged_no_match are those of the merge in
\* chunk order.
C8_MergeOrderIndependent ==
    mg_pc = "returned" =>
        LET inOrder == merge_results(parallel_results)
        IN /\ merged_results = inOrder.merged_results
           /\ mg_umis_per_cell = inOrder.umis_per_cell
           /\ reads_per_cell = inOrder.reads_per_cell
           /\ merged_no_match = inOrder.merged_no_match

\* two chunks that count the same (cell, tag, UMI) and the same unmapped sequence,
\* merged in the reverse of the list order
C8_Witness ==
    /\ mg_pc = "returned"
    /\ Len(mg_order) >= 2
    /\ mg_order[1] = 2
    /\ mg_order[2] = 1
    /\ \E c \in DOMAIN parallel_results[1].results \cap DOMAIN parallel_results[2].results :
           \E t \in DOMAIN parallel_results[1].results[c]
                       \cap DOMAIN parallel_results[2].results[c] :
               /\ DOMAIN parallel_results[1].results[c][t]
                      \cap DOMAIN parallel_results[2].results[c][t] # {}
               /\ parallel_results[1].results[c][t] # parallel_results[2].results[c][t]
    /\ DOMAIN parallel_results[1].no_match \cap DOMAIN parallel_results[2].no_match # {}

\* the number of distinct UMIs of (cell, TAG) in one chunk's results
DistinctUmis(results, cell, TAG) ==
    Cardinality(DOMAIN Get(Get(results, cell, EmptyDict), TAG, EmptyDict))

\* the tags a result set holds for any cell
TagsOf(results) == UNION {DOMAIN results[c] : c \in DOMAIN results}

\* the sum over the tags of one chunk's results of the squared number of distinct
\* UMIs of the cell
SquaresInChunk(results, cell) ==
    LET sq == [TAG \in TagsOf(results) |->
                  DistinctUmis(results, cell, TAG) * DistinctUmis(results, cell, TAG)]
    IN SumOver(sq, TagsOf(results))

\* the cells of every chunk's results
MappedCells ==
    UNION {DOMAIN parallel_results[i].results : i \in DOMAIN parallel_results}

CellTotal(cell) ==
    LET perTag == [t \in DOMAIN cell |-> SumOver(cell[t], DOMAIN cell[t])]
    IN SumOver(perTag, DOMAIN cell)

\* the sum of every count of a result set
ResultsTotal(results) ==
    LET perCell == [c \in DOMAIN results |-> CellTotal(results[c])]
    IN SumOver(perCell, DOMAIN results)

\* the sum of the counts stored under "unmapped" over all cells
UnmappedTotal(results) ==
    LET perCell == [c \in DOMAIN results |->
                       LET counter == Get(results[c], "unmapped", EmptyDict)
                       IN SumOver(counter, DOMAIN counter)]
    IN SumOver(perCell, DOMAIN results)

\* the number of rows of all chunk files
RowsTotal ==
    LET perChunk == [i \in DOMAIN chunk_files |-> Len(chunk_files[i])]
    IN SumOver(perChunk, DOMAIN chunk_files)

\* C15: after map_reads on each chunk and merge_results on the outputs, the counts
\* of merged_results over every cell, tag ("unmapped" included) and UMI add up to
\* the number of rows of all chunks, reads_per_cell[c] is the sum of
\* merged_results[c][t][u] over t and u for every cell c, and merged_no_match adds
\* up to the counts under "unmapped" over all cells.
C15_ReadConservation ==
    mg_pc = "returned" =>
        /\ ResultsTotal(merged_results) = RowsTotal
        /\ DOMAIN reads_per_cell = DOMAIN merged_results
        /\ \A c \in DOMAIN merged_results :
               reads_per_cell[c] = CellTotal(merged_results[c])
        /\ SumOver(merged_no_match, DOMAIN merged_no_match) = UnmappedTotal(merged_results)

\* three rows in two chunks, a (cell, tag, UMI) read twice in one chunk, and both
\* mapped and unmapped reads
C15_Witness ==
    /\ mg_pc = "returned"
    /\ Len(chunk_files) = 2
    /\ RowsTotal = 3
    /\ \E i \in DOMAIN parallel_results :
           \E c \in DOMAIN parallel_results[i].results :
               \E t \in DOMAIN parallel_results[i].results[c] :
                   \E u \in DOMAIN parallel_results[i].results[c][t] :
                       parallel_results[i].results[c][t][u] = 2
    /\ UnmappedTotal(merged_results) >= 1
    /\ UnmappedTotal(merged_results) < RowsTotal

---------------------------------------------------------------------------
(* correct_cells_whitelist, find_true_to_false_map and collapse_cells,
   processing.py:284-318 and 362-439 *)

\* length of a cell barcode
BarcodeLen == 2

CellBarcodes == SeqsOfLen(Bases, BarcodeLen)
\* the tag names of the reference panel, and the keys a result set can hold
CellPanel == {"t1"}
CellTagKeys == CellPanel \cup {"unmapped"}
CellUmis == {"u1", "u2"}

\* one counted read: its cell barcode, the tag it matched and its UMI
CountedReads == [cell_barcode : CellBarcodes, tag : CellTagKeys, UMI : CellUmis]

RECURSIVE CountReads(_, _, _)
\* the result set that counts the reads (processing.py:131-139)
CountReads(results, reads, i) ==
    IF i > Len(reads) THEN results
    ELSE LET r == reads[i]
             cell == Get(results, r.cell_barcode, EmptyDict)
         IN CountReads(Put(results, r.cell_barcode,
                           Put(cell, r.tag, CounterInc(Get(cell, r.tag, EmptyDict), r.UMI, 1))),
                       reads, i + 1)

\* the Global Result Set of one chunk counting the reads
MergedFrom(reads) ==
    merge_results(<<[results |-> CountReads(EmptyDict, reads, 1), no_match |-> EmptyDict]>>)

\* lines 422-426: the whitelist members within the threshold, at a distance > 0
Candidates(cell_barcode, wl, threshold) ==
    LET found == {w \in wl : Hamming(cell_barcode, w) <= threshold}   \* barcode_tree.find
    IN {w \in found : Hamming(cell_barcode, w) > 0}

\* lines 416-439: true_to_false, real barcode -> its fake barcodes
find_true_to_false_map(cell_barcodes, wl, threshold) ==
    LET unique == {b \in cell_barcodes \ wl : Cardinality(Candidates(b, wl, threshold)) = 1}
        reals == {w \in wl : \E b \in unique : Candidates(b, wl, threshold) = {w}}
    IN [w \in reals |-> {b \in unique : Candidates(b, wl, threshold) = {w}}]

\* line 311: final_results[real_barcode][TAG].update(temp[TAG])
FoldCounter(real_counter, fake_counter) == CounterUpdate(real_counter, fake_counter)

RECURSIVE FoldTags(_, _, _)
\* lines 310-311: for TAG in temp.keys()
FoldTags(real_cell, temp, todo) ==
    IF todo = {} THEN real_cell
    ELSE LET TAG == CHOOSE t \in todo : TRUE
         IN FoldTags(Put(real_cell, TAG, FoldCounter(Get(real_cell, TAG, EmptyDict), temp[TAG])),
                     temp, todo \ {TAG})

\* lines 304-306: a cell with an empty Counter for every TAG of ab_map
ZeroCell(keys) == [TAG \in keys |-> EmptyDict]

InitCells ==
    /\ \E reads \in SeqsUpTo(CountedReads, MaxCellReads) :
           /\ final_results = MergedFrom(reads).merged_results
           /\ umis_per_cell = MergedFrom(reads).umis_per_cell
    /\ cc_results0 = final_results
    /\ cc_umis0 = umis_per_cell
    /\ whitelist \in (SUBSET CellBarcodes) \ {{}}
    /\ collapsing_threshold \in 1..MaxThreshold
    /\ ab_map \in {CellPanel, CellTagKeys}
    /\ true_to_false = EmptyDict
    /\ corrected_barcodes = 0
    /\ cc_pc = "find"
    /\ cc_real = <<>>
    /\ cc_fakes = {}
    /\ cc_done = {}
    /\ cc_created = {}
    /\ MatchIdle /\ ChunksIdle /\ MergeIdle /\ UmiIdle /\ MatrixIdle /\ GuardIdle

\* lines 381-394
FindTrueToFalseMap ==
    /\ cc_pc = "find"
    /\ true_to_false' =
           find_true_to_false_map(DOMAIN final_results, whitelist, collapsing_threshold)
    /\ cc_pc' = "collapse"
    /\ UNCHANGED <<final_results, umis_per_cell, whitelist, collapsing_threshold, ab_map,
                   corrected_barcodes, cc_real, cc_fakes, cc_done, cc_created,
                   cc_results0, cc_umis0>>
    /\ UNCHANGED notCells

\* lines 301-306: the next real barcode, created when it is not in the results
CollapseReal(real_barcode) ==
    /\ cc_pc = "collapse"
    /\ cc_real = <<>>
    /\ real_barcode \in DOMAIN true_to_false \ cc_done
    /\ cc_real' = real_barcode
    /\ cc_fakes' = true_to_false[real_barcode]
    /\ IF real_barcode \notin DOMAIN final_results
       THEN /\ final_results' = Put(final_results, real_barcode, ZeroCell(ab_map))
            /\ cc_created' = cc_created \cup {real_barcode}
       ELSE UNCHANGED <<final_results, cc_created>>
    /\ UNCHANGED <<umis_per_cell, whitelist, collapsing_threshold, ab_map, true_to_false,
                   corrected_barcodes, cc_pc, cc_done, cc_results0, cc_umis0>>
    /\ UNCHANGED notCells

CollapseNextReal == \E real_barcode \in CellBarcodes : CollapseReal(real_barcode)

\* lines 307-315: one fake barcode is folded into the real one
CollapseFake(fake_barcode) ==
    /\ cc_pc = "collapse"
    /\ cc_real # <<>>
    /\ fake_barcode \in cc_fakes
    /\ LET temp == Get(final_results, fake_barcode, EmptyDict)              \* line 308
           real_cell == final_results[cc_real]
           \* a TAG the real cell has no Counter for, in a dict with no default factory
           missing == cc_real \in cc_created
                      /\ \E TAG \in DOMAIN temp : TAG \notin DOMAIN real_cell
       IN IF \/ fake_barcode \notin DOMAIN final_results
             \/ fake_barcode \notin DOMAIN umis_per_cell
             \/ missing
          THEN /\ cc_pc' = "KeyError"
               /\ UNCHANGED <<final_results, umis_per_cell, corrected_barcodes,
                              cc_real, cc_fakes, cc_done>>
          ELSE /\ final_results' =
                      Put(Del(final_results, fake_barcode), cc_real,
                          FoldTags(real_cell, temp, DOMAIN temp))
               /\ corrected_barcodes' = corrected_barcodes + 1              \* line 309
               /\ umis_per_cell' =                                          \* lines 312-315
                      CounterInc(Del(umis_per_cell, fake_barcode), cc_real,
                                 umis_per_cell[fake_barcode])
               /\ cc_fakes' = cc_fakes \ {fake_barcode}
               /\ IF cc_fakes' = {}
                  THEN cc_real' = <<>> /\ cc_done' = cc_done \cup {cc_real}
                  ELSE UNCHANGED <<cc_real, cc_done>>
               /\ UNCHANGED cc_pc
    /\ UNCHANGED <<whitelist, collapsing_threshold, ab_map, true_to_false, cc_created,
                   cc_results0, cc_umis0>>
    /\ UNCHANGED notCells

CollapseNextFake == \E fake_barcode \in CellBarcodes : CollapseFake(fake_barcode)

\* lines 318 and 398
CollapseReturn ==
    /\ cc_pc = "collapse"
    /\ cc_real = <<>>
    /\ cc_done = DOMAIN true_to_false
    /\ cc_pc' = "returned"
    /\ UNCHANGED <<final_results, umis_per_cell, whitelist, collapsing_threshold, ab_map,
                   true_to_false, corrected_barcodes, cc_real, cc_fakes, cc_done,
                   cc_created, cc_results0, cc_umis0>>
    /\ UNCHANGED notCells

NextCells == FindTrueToFalseMap \/ CollapseNextReal \/ CollapseNextFake \/ CollapseReturn

SpecCells == InitCells /\ [][NextCells]_vars

\* the count of (cell, tag, UMI) in a result set, 0 when there is none
CountIn(results, cell, tag, umi) ==
    Get(Get(Get(results, cell, EmptyDict), tag, EmptyDict), umi, 0)

\* the observed barcodes outside the whitelist with no or several whitelist members
\* within the threshold
Unassignable ==
    {b \in DOMAIN cc_results0 \ whitelist :
        Cardinality(Candidates(b, whitelist, collapsing_threshold)) # 1}

\* C1: after correct_cells_whitelist every observed barcode outside the whitelist
\* with zero or two-or-more whitelist members within the threshold is dropped: it
\* is no key of final_results or umis_per_cell.
C1_UnassignableDropped ==
    cc_pc = "returned" =>
        \A b \in Unassignable : b \notin DOMAIN final_results /\ b \notin DOMAIN umis_per_cell

\* the false barcodes of the mapping
FalseBarcodes == UNION {true_to_false[T] : T \in DOMAIN true_to_false}

\* C7: collapse_cells raises no KeyError and removes every false barcode from
\* final_results and umis_per_cell; each true barcode's count of (tag, UMI) is its old count (0 when
\* it was not observed) plus the old counts of the false barcodes folded into it,
\* its umis_per_cell grows by their totals, and corrected_barcodes is the number of
\* false barcodes.
C7_CollapseExact ==
    /\ cc_pc # "KeyError"
    /\ cc_pc = "returned" =>
        /\ \A F \in FalseBarcodes :
               F \notin DOMAIN final_results /\ F \notin DOMAIN umis_per_cell
        /\ \A T \in DOMAIN true_to_false :
               /\ T \in DOMAIN final_results
               /\ \A t \in CellTagKeys, u \in CellUmis :
                      CountIn(final_results, T, t, u) =
                          CountIn(cc_results0, T, t, u)
                          + SumOver([F \in true_to_false[T] |-> CountIn(cc_results0, F, t, u)],
                                    true_to_false[T])
               /\ \A t \in UNION {DOMAIN cc_results0[F] : F \in true_to_false[T]} :
                      t \in DOMAIN final_results[T]
               /\ Get(umis_per_cell, T, 0) =
                      Get(cc_umis0, T, 0)
                      + SumOver([F \in true_to_false[T] |-> cc_umis0[F]], true_to_false[T])
        /\ corrected_barcodes = Cardinality(FalseBarcodes)

---------------------------------------------------------------------------
(* correct_umis and update_umi_counts, processing.py:215-281 *)

UmiCells == {"c1", "c2"}
UmiTagKeys == {"t1", "unmapped"}
UmiNames == {"u1", "u2", "u3"}
UmiReads == [cell_barcode : UmiCells, tag : UmiTagKeys, UMI : UmiNames]

(* final_results[cell_barcode] is a dict that correct_umis changes while it
   iterates over it, so the model keeps the layout CPython gives a dict: the
   entries in insertion order, a popped entry left behind as a dummy, and the
   number of entries still free before the dict is resized. *)
Dummy == "<dummy>"
PyDictMinSize == 8
UsableFraction(size) == (2 * size) \div 3

RECURSIVE KeysSize(_, _)
\* the smallest size, doubling from size, that is at least minsize
KeysSize(size, minsize) == IF size >= minsize THEN size ELSE KeysSize(2 * size, minsize)

EmptyPyDict ==
    [entries |-> <<>>, usable |-> UsableFraction(PyDictMinSize), items |-> EmptyDict]

IsLive(key) == key # Dummy
Live(d) == SelectSeq(d.entries, IsLive)

\* d[key] = value; a new key takes a free entry, and when none is free the dict is
\* resized for three times its items and the live entries are packed
PyDictSet(d, key, value) ==
    IF key \in DOMAIN d.items
    THEN [d EXCEPT !.items = Put(d.items, key, value)]
    ELSE LET live == Live(d)
             room == IF d.usable <= 0
                     THEN [entries |-> live,
                           usable |-> UsableFraction(KeysSize(PyDictMinSize, 3 * Len(live)))
                                      - Len(live)]
                     ELSE [entries |-> d.entries, usable |-> d.usable]
         IN [entries |-> Append(room.entries, key),
             usable |-> room.usable - 1,
             items |-> Put(d.items, key, value)]

\* d.pop(key)
PyDictPop(d, key) ==
    [entries |-> [i \in DOMAIN d.entries |-> IF d.entries[i] = key THEN Dummy
                                                                ELSE d.entries[i]],
     usable |-> d.usable,
     items |-> Del(d.items, key)]

RECURSIVE UmiResults(_, _, _)
\* the result set that counts the reads, with its cells in the order of the dict
UmiResults(acc, reads, i) ==
    IF i > Len(reads) THEN acc
    ELSE LET r == reads[i]
             known == r.cell_barcode \in DOMAIN acc.dicts
             d == IF known THEN acc.dicts[r.cell_barcode] ELSE EmptyPyDict
             counts == Get(d.items, r.tag, EmptyDict)
         IN UmiResults(
                [cells |-> IF known THEN acc.cells ELSE Append(acc.cells, r.cell_barcode),
                 dicts |-> Put(acc.dicts, r.cell_barcode,
                               PyDictSet(d, r.tag, CounterInc(counts, r.UMI, 1)))],
                reads, i + 1)

Partitions(S) ==
    {P \in SUBSET (SUBSET S \ {{}}) :
        UNION P = S /\ \A a, b \in P : a # b => a \cap b = {}}

\* network.UMIClusterer()(counts, threshold): some clusters that partition the UMIs,
\* each with a UMI of its highest count first
UMIClusterer(counts) ==
    UNION {{{[major |-> f[c], members |-> c] : c \in P} :
              f \in {g \in [P -> DOMAIN counts] :
                        \A c \in P : g[c] \in c /\ \A u \in c : counts[g[c]] >= counts[u]}} :
           P \in Partitions(DOMAIN counts)}

RECURSIVE FoldMinors(_, _, _)
\* lines 277-280: for minor_umi in umi_cluster[1:]
FoldMinors(cell_tag_counts, major_umi, minors) ==
    IF minors = {} THEN cell_tag_counts
    ELSE LET minor_umi == CHOOSE m \in minors : TRUE
             temp == cell_tag_counts[minor_umi]
         IN FoldMinors(CounterInc(Del(cell_tag_counts, minor_umi), major_umi, temp),
                       major_umi, minors \ {minor_umi})

RECURSIVE UpdateClusters(_, _)
\* lines 272-280: for umi_cluster in UMIclusters
UpdateClusters(acc, UMIclusters) ==
    IF UMIclusters = {} THEN acc
    ELSE LET umi_cluster == CHOOSE c \in UMIclusters : TRUE
             minors == umi_cluster.members \ {umi_cluster.major}
         IN UpdateClusters(
                [cell_tag_counts |-> FoldMinors(acc.cell_tag_counts, umi_cluster.major, minors),
                 temp_corrected_umis |-> acc.temp_corrected_umis + Cardinality(minors)],
                UMIclusters \ {umi_cluster})

update_umi_counts(UMIclusters, cell_tag_counts) ==
    UpdateClusters([cell_tag_counts |-> cell_tag_counts, temp_corrected_umis |-> 0],
                   UMIclusters)

InitUmi ==
    /\ \E reads \in SeqsUpTo(UmiReads, MaxUmiReads) :
           LET built == UmiResults([cells |-> <<>>, dicts |-> EmptyDict], reads, 1)
           IN /\ cu_final_results = built.dicts
              /\ cu_cells = built.cells
    /\ cu_results0 = [c \in DOMAIN cu_final_results |-> cu_final_results[c].items]
    /\ max_umis \in 1..MaxMaxUmis
    /\ iter_checks_len \in BOOLEAN
    /\ corrected_umis = 0
    /\ aberrant_cells = {}
    /\ cu_pc = "cells"
    /\ cu_ix = 1
    /\ cu_pos = 1
    /\ cu_len = 0
    /\ cu_first = EmptyDict
    /\ cu_answers = EmptyDict
    /\ MatchIdle /\ ChunksIdle /\ MergeIdle /\ CellsIdle /\ MatrixIdle /\ GuardIdle

\* line 235: the next cell_barcode; line 236 starts to iterate over its dict
BeginCell ==
    /\ cu_pc = "cells"
    /\ cu_ix <= Len(cu_cells)
    /\ cu_pos' = 1
    /\ cu_len' = Cardinality(DOMAIN cu_final_results[cu_cells[cu_ix]].items)
    /\ cu_pc' = "tags"
    /\ UNCHANGED <<cu_final_results, cu_cells, max_umis, iter_checks_len, corrected_umis,
                   aberrant_cells, cu_ix, cu_results0, cu_first, cu_answers>>
    /\ UNCHANGED notUmi

\* line 256
ReturnUmis ==
    /\ cu_pc = "cells"
    /\ cu_ix > Len(cu_cells)
    /\ cu_pc' = "returned"
    /\ UNCHANGED <<cu_final_results, cu_cells, max_umis, iter_checks_len, corrected_umis,
                   aberrant_cells, cu_ix, cu_pos, cu_len, cu_results0, cu_first, cu_answers>>
    /\ UNCHANGED notUmi

CurDict == cu_final_results[cu_cells[cu_ix]]

\* the iterator skips the dummies from di_pos on
NextEntry ==
    LET later == {i \in cu_pos..Len(CurDict.entries) : CurDict.entries[i] # Dummy}
    IN IF later = {} THEN Len(CurDict.entries) + 1 ELSE Min(later)

\* line 236: the iterator is past the last entry
EndOfTags ==
    /\ cu_pc = "tags"
    /\ NextEntry > Len(CurDict.entries)
    /\ cu_ix' = cu_ix + 1
    /\ cu_pc' = "cells"
    /\ UNCHANGED <<cu_final_results, cu_cells, max_umis, iter_checks_len, corrected_umis,
                   aberrant_cells, cu_pos, cu_len, cu_results0, cu_first, cu_answers>>
    /\ UNCHANGED notUmi

\* line 236: the iterator finds a key after it yielded as many as the dict held:
\* RuntimeError: dictionary keys changed during iteration
KeysChanged ==
    /\ cu_pc = "tags"
    /\ NextEntry <= Len(CurDict.entries)
    /\ iter_checks_len /\ cu_len = 0
    /\ cu_pc' = "RuntimeError"
    /\ UNCHANGED <<cu_final_results, cu_cells, max_umis, iter_checks_len, corrected_umis,
                   aberrant_cells, cu_ix, cu_pos, cu_len, cu_results0, cu_first, cu_answers>>
    /\ UNCHANGED notUmi

\* line 236: the iterator yields the TAG at NextEntry
Yields ==
    /\ cu_pc = "tags"
    /\ NextEntry <= Len(CurDict.entries)
    /\ ~(iter_checks_len /\ cu_len = 0)

YieldedTag == CurDict.entries[NextEntry]
n_umis == Cardinality(DOMAIN CurDict.items[YieldedTag])

\* lines 238-246: the group is clustered, popped and assigned again
CorrectTag ==
    /\ Yields
    /\ n_umis > 1 /\ n_umis <= max_umis
    /\ LET cell_barcode == cu_cells[cu_ix]
           TAG == YieldedTag
       IN \E UMIclusters \in UMIClusterer(CurDict.items[TAG]) :
              LET upd == update_umi_counts(UMIclusters, CurDict.items[TAG])
              IN \* the clusterer answers the same counts the same way
                 /\ CurDict.items[TAG] \in DOMAIN cu_answers =>
                        UMIclusters = cu_answers[CurDict.items[TAG]]
                 /\ cu_answers' = Put(cu_answers, CurDict.items[TAG], UMIclusters)
                 /\ cu_final_results' =
                        [cu_final_results EXCEPT ![cell_barcode] =
                            PyDictSet(PyDictPop(@, TAG), TAG, upd.cell_tag_counts)]
                 /\ corrected_umis' = corrected_umis + upd.temp_corrected_umis
                 /\ cu_first' = IF <<cell_barcode, TAG>> \in DOMAIN cu_first
                                THEN cu_first
                                ELSE Put(cu_first, <<cell_barcode, TAG>>, UMIclusters)
    /\ cu_pos' = NextEntry + 1
    /\ cu_len' = cu_len - 1
    /\ UNCHANGED <<cu_cells, max_umis, iter_checks_len, aberrant_cells, cu_pc, cu_ix,
                   cu_results0>>
    /\ UNCHANGED notUmi

\* lines 247-248
AberrantTag ==
    /\ Yields
    /\ ~(n_umis > 1 /\ n_umis <= max_umis)
    /\ n_umis > max_umis
    /\ aberrant_cells' = aberrant_cells \cup {cu_cells[cu_ix]}
    /\ cu_pos' = NextEntry + 1
    /\ cu_len' = cu_len - 1
    /\ UNCHANGED <<cu_final_results, cu_cells, max_umis, iter_checks_len, corrected_umis,
                   cu_pc, cu_ix, cu_results0, cu_first, cu_answers>>
    /\ UNCHANGED notUmi

\* line 237: neither branch
SkipTag ==
    /\ Yields
    /\ ~(n_umis > 1 /\ n_umis <= max_umis)
    /\ ~(n_umis > max_umis)
    /\ cu_pos' = NextEntry + 1
    /\ cu_len' = cu_len - 1
    /\ UNCHANGED <<cu_final_results, cu_cells, max_umis, iter_checks_len, corrected_umis,
                   aberrant_cells, cu_pc, cu_ix, cu_results0, cu_first, cu_answers>>
    /\ UNCHANGED notUmi

NextUmi ==
    BeginCell \/ ReturnUmis \/ EndOfTags \/ KeysChanged \/ CorrectTag \/ AberrantTag \/ SkipTag

SpecUmi == InitUmi /\ [][NextUmi]_vars

\* the (cell, tag) groups handed to correct_umis and their numbers of distinct UMIs
UmiGroups == {g \in UmiCells \X UmiTagKeys :
                 g[1] \in DOMAIN cu_results0 /\ g[2] \in DOMAIN cu_results0[g[1]]}
GroupCounts(g) == cu_results0[g[1]][g[2]]
GroupSize(g) == Cardinality(DOMAIN GroupCounts(g))
Correctable == {g \in UmiGroups : GroupSize(g) > 1 /\ GroupSize(g) <= max_umis}

\* one key per cluster, its first element, with the sum of the counts of its members
FoldedInto(counts, clusters) ==
    [major \in {c.major : c \in clusters} |->
        LET c == CHOOSE x \in clusters : x.major = major
        IN SumOver(counts, c.members)]

\* C9: correct_umis returns (it raises no error); a group with 1 < n <= max_umis
\* distinct UMIs then has one key per cluster the clusterer returned for it, counting
\* the sum of the cluster's members, and corrected_umis is the sum of (cluster size
\* - 1) over these clusters; every other group is unchanged; a cell is in the
\* aberrant set exactly when one of its groups has n > max_umis.
C9_UmiCorrection ==
    /\ cu_pc # "RuntimeError"
    /\ cu_pc = "returned" =>
        /\ \A g \in UmiGroups :
               /\ g[2] \in DOMAIN cu_final_results[g[1]].items
               /\ IF g \in Correctable
                  THEN /\ g \in DOMAIN cu_first
                       /\ cu_final_results[g[1]].items[g[2]] =
                              FoldedInto(GroupCounts(g), cu_first[g])
                  ELSE cu_final_results[g[1]].items[g[2]] = GroupCounts(g)
        /\ corrected_umis =
               SumOver([g \in Correctable |->
                           SumOver([c \in cu_first[g] |-> Cardinality(c.members) - 1],
                                   cu_first[g])],
                       Correctable)
        /\ aberrant_cells = {g[1] : g \in {h \in UmiGroups : GroupSize(h) > max_umis}}

---------------------------------------------------------------------------
(* generate_sparse_matrices, processing.py:442-470 *)

MatrixCells == {"c1", "c2"}
\* the tag names in panel order, the key of the unmapped reads last
MatrixTagOrder == <<"t1", "unmapped">>
MatrixTagKeys == {MatrixTagOrder[j] : j \in DOMAIN MatrixTagOrder}
MatrixUmis == {"u1", "u2"}
MatrixReads == [cell_barcode : MatrixCells, tag : MatrixTagKeys, UMI : MatrixUmis]

\* sparse.dok_matrix(shape, dtype=int32): the entries that are not 0, by (row, column)
DokMatrix(rows, cols) == [shape |-> <<rows, cols>>, data |-> EmptyDict]
DokSet(m, row, col, value) ==
    [m EXCEPT !.data = IF value = 0 THEN Del(@, <<row, col>>) ELSE Put(@, <<row, col>>, value)]
DokGet(m, row, col) == Get(m.data, <<row, col>>, 0)

\* mutant of UmiEntry: the sum of the counts in place of the number of UMIs
UmiEntryAsReads(counts) == SumOver(counts, DOMAIN counts)

\* lines 464-466: len(final_results[cell_barcode][TAG])
UmiEntry(counts) == Cardinality(DOMAIN counts)

\* lines 467-469: sum(final_results[cell_barcode][TAG].values())
ReadEntry(counts) == SumOver(counts, DOMAIN counts)

RECURSIVE FillColumn(_, _, _, _)
\* lines 462-469: for j, TAG in enumerate(final_results[cell_barcode])
FillColumn(acc, cell, i, todo) ==
    IF todo = {} THEN acc
    ELSE LET TAG == CHOOSE t \in todo : TRUE
             counts == cell[TAG]
         IN FillColumn(
                IF counts # EmptyDict
                THEN [umi |-> DokSet(acc.umi, ordered_tags_map[TAG].id, i, UmiEntry(counts)),
                      read |-> DokSet(acc.read, ordered_tags_map[TAG].id, i, ReadEntry(counts))]
                ELSE acc,
                cell, i, todo \ {TAG})

\* state after lines 455-460
InitMatrix ==
    /\ \E reads \in SeqsUpTo(MatrixReads, MaxMatrixReads), zero \in SUBSET MatrixCells :
           LET counted == CountReads(EmptyDict, reads, 1)
           IN mx_final_results =
                  [c \in DOMAIN counted \cup zero |->
                      IF c \in DOMAIN counted THEN counted[c] ELSE ZeroCell(MatrixTagKeys)]
    /\ ordered_tags_map =
           [t \in MatrixTagKeys |->
               [id |-> (CHOOSE j \in DOMAIN MatrixTagOrder : MatrixTagOrder[j] = t) - 1]]
    /\ top_cells \in {cells \in SeqsUpTo(MatrixCells, Cardinality(MatrixCells)) :
                         /\ cells # <<>>
                         /\ \A a, b \in DOMAIN cells : a # b => cells[a] # cells[b]}
    /\ umi_results_matrix = DokMatrix(Cardinality(DOMAIN ordered_tags_map), Len(top_cells))
    /\ read_results_matrix = DokMatrix(Cardinality(DOMAIN ordered_tags_map), Len(top_cells))
    /\ mx_i = 0
    /\ mx_pc = "columns"
    /\ MatchIdle /\ ChunksIdle /\ MergeIdle /\ CellsIdle /\ UmiIdle /\ GuardIdle

\* a lookup of lines 462-464 that has no key
ColumnKeyError ==
    LET cell_barcode == top_cells[mx_i + 1]
    IN IF cell_barcode \notin DOMAIN mx_final_results
       THEN TRUE
       ELSE \E TAG \in DOMAIN mx_final_results[cell_barcode] :
                /\ mx_final_results[cell_barcode][TAG] # EmptyDict
                /\ TAG \notin DOMAIN ordered_tags_map

\* lines 461-469: one cell_barcode of top_cells
MatrixColumn ==
    /\ mx_pc = "columns"
    /\ mx_i < Len(top_cells)
    /\ ~ColumnKeyError
    /\ LET cell == mx_final_results[top_cells[mx_i + 1]]
           filled == FillColumn([umi |-> umi_results_matrix, read |-> read_results_matrix],
                                cell, mx_i, DOMAIN cell)
       IN /\ umi_results_matrix' = filled.umi
          /\ read_results_matrix' = filled.read
    /\ mx_i' = mx_i + 1
    /\ UNCHANGED <<mx_final_results, ordered_tags_map, top_cells, mx_pc>>
    /\ UNCHANGED notMatrix

\* line 462 or 464 raises KeyError
MatrixKeyError ==
    /\ mx_pc = "columns"
    /\ mx_i < Len(top_cells)
    /\ ColumnKeyError
    /\ mx_pc' = "KeyError"
    /\ UNCHANGED <<mx_final_results, ordered_tags_map, top_cells, umi_results_matrix,
                   read_results_matrix, mx_i>>
    /\ UNCHANGED notMatrix

\* line 470
MatrixReturn ==
    /\ mx_pc = "columns"
    /\ mx_i = Len(top_cells)
    /\ mx_pc' = "done"
    /\ UNCHANGED <<mx_final_results, ordered_tags_map, top_cells, umi_results_matrix,
                   read_results_matrix, mx_i>>
    /\ UNCHANGED notMatrix

NextMatrix == MatrixColumn \/ MatrixKeyError \/ MatrixReturn

SpecMatrix == InitMatrix /\ [][NextMatrix]_vars

\* the tags with id row that have a non-empty UMI counter for the cell of column i
TagsAt(row, i) ==
    {t \in DOMAIN mx_final_results[top_cells[i + 1]] :
        /\ mx_final_results[top_cells[i + 1]][t] # EmptyDict
        /\ ordered_tags_map[t].id = row}

\* C10: in the matrices generate_sparse_matrices returns, the entry at (id of t, i)
\* is, for the cell at position i of top_cells and a tag t with a non-empty counter,
\* the number of distinct UMIs (UMI matrix) and the sum of the counts (read matrix);
\* every other entry is 0; both have shape (number of tags, number of top cells).
C10_SparseMatrices ==
    mx_pc = "done" =>
        LET rows == Cardinality(DOMAIN ordered_tags_map)
            cols == Len(top_cells)
        IN /\ umi_results_matrix.shape = <<rows, cols>>
           /\ read_results_matrix.shape = <<rows, cols>>
           /\ DOMAIN umi_results_matrix.data \subseteq (0..(rows - 1)) \X (0..(cols - 1))
           /\ DOMAIN read_results_matrix.data \subseteq (0..(rows - 1)) \X (0..(cols - 1))
           /\ \A row \in 0..(rows - 1), i \in 0..(cols - 1) :
                  IF TagsAt(row, i) # {}
                  THEN \A t \in TagsAt(row, i) :
                           LET counts == mx_final_results[top_cells[i + 1]][t]
                           IN /\ DokGet(umi_results_matrix, row, i) =
                                     Cardinality(DOMAIN counts)
                              /\ DokGet(read_results_matrix, row, i) =
                                     SumOver(counts, DOMAIN counts)
                  ELSE /\ DokGet(umi_results_matrix, row, i) = 0
                       /\ DokGet(read_results_matrix, row, i) = 0

\* the second of two top cells has a tag with two UMIs and three reads
C10_Witness ==
    /\ mx_pc = "done"
    /\ Len(top_cells) = 2
    /\ \E t \in MatrixTagKeys :
           /\ t \in DOMAIN mx_final_results[top_cells[2]]
           /\ Cardinality(DOMAIN mx_final_results[top_cells[2]][t]) = 2
           /\ DokGet(umi_results_matrix, ordered_tags_map[t].id, 1) = 2
           /\ DokGet(read_results_matrix, ordered_tags_map[t].id, 1) = 3

---------------------------------------------------------------------------
(* check_unmapped, processing.py:205-212 *)

(* The guard compares two Python floats, sum / total_reads and float(0.99).  A
   float is an IEEE double: the model keeps a positive double as its exponent
   and the bits of its significand, and rounds a quotient to nearest, ties to
   even, from the bits of the long division. *)
DoubleBits == 53

RECURSIVE QuotientBits(_, _, _)
\* the first n bits of r / t after the binary point (r < t), and the remainder
\* left: long division, the first half of the bits and then the rest
QuotientBits(r, t, n) ==
    IF n = 0 THEN [bits |-> <<>>, rem |-> r]
    ELSE IF n = 1
    THEN LET bit == IF 2 * r >= t THEN 1 ELSE 0
         IN [bits |-> <<bit>>, rem |-> 2 * r - bit * t]
    ELSE LET first == QuotientBits(r, t, n \div 2)
             rest == QuotientBits(first.rem, t, n - (n \div 2))
         IN [bits |-> first.bits \o rest.bits, rem |-> rest.rem]

RECURSIVE Normalize(_, _, _)
\* u / t = (n.u / n.t) * 2^n.exp with 1/2 <= n.u / n.t < 1
Normalize(u, t, exp) ==
    IF 2 * u < t THEN Normalize(2 * u, t, exp - 1)
    ELSE IF u >= t THEN Normalize(u, 2 * t, exp + 1)
    ELSE [u |-> u, t |-> t, exp |-> exp]

\* a significand plus one unit in its last place; all ones carry into the exponent
RoundUp(exp, sig) ==
    LET zeros == {i \in DOMAIN sig : sig[i] = 0}
    IN IF zeros = {}
       THEN [exp |-> exp + 1, sig |-> [i \in DOMAIN sig |-> IF i = 1 THEN 1 ELSE 0]]
       ELSE LET k == CHOOSE i \in zeros : \A j \in zeros : j <= i
            IN [exp |-> exp,
                sig |-> [i \in DOMAIN sig |-> IF i < k THEN sig[i] ELSE IF i = k THEN 1 ELSE 0]]

\* the float u / t of two ints u >= 0, t > 0 (also the float of the literal u/t)
TrueDiv(u, t) ==
    IF u = 0 THEN [zero |-> TRUE, exp |-> 0, sig |-> <<>>]
    ELSE LET n == Normalize(u, t, 0)
             q == QuotientBits(n.u, n.t, DoubleBits + 1)
             sig == SubSeq(q.bits, 1, DoubleBits)
             up == q.bits[DoubleBits + 1] = 1 /\ (q.rem # 0 \/ sig[DoubleBits] = 1)
             r == IF up THEN RoundUp(n.exp, sig) ELSE [exp |-> n.exp, sig |-> sig]
         IN [zero |-> FALSE, exp |-> r.exp, sig |-> r.sig]

\* mutant of FloatGreater: >= in place of >
FloatGreaterEq(a, b) ==
    IF a.zero \/ b.zero THEN b.zero
    ELSE IF a.exp # b.exp THEN a.exp > b.exp
    ELSE ~(\E i \in DOMAIN a.sig :
               a.sig[i] < b.sig[i] /\ \A j \in 1..(i - 1) : a.sig[j] = b.sig[j])

\* a > b for two floats that are not negative
FloatGreater(a, b) ==
    IF a.zero \/ b.zero THEN b.zero /\ ~a.zero
    ELSE IF a.exp # b.exp THEN a.exp > b.exp
    ELSE \E i \in DOMAIN a.sig :
             a.sig[i] > b.sig[i] /\ \A j \in 1..(i - 1) : a.sig[j] = b.sig[j]

\* line 207: float(0.99)
UnmappedCeiling == TrueDiv(99, 100)

\* the tallies of n unmapped reads: all of one sequence, or one of them of another
GuardTallies(n) ==
    (IF n = 0 THEN {EmptyDict} ELSE {(<<"A">> :> n)})
    \cup (IF n >= 2 THEN {(<<"A">> :> (n - 1)) @@ (<<"C">> :> 1)} ELSE {})

\* line 207: sum(no_match.values())
SumUnmapped(no_match) == SumOver(no_match, DOMAIN no_match)

InitGuard ==
    /\ gu_total_reads \in 0..MaxGuardReads
    /\ \E n \in 0..gu_total_reads :
           gu_no_match \in GuardTallies(n)
    /\ gu_no_match0 = gu_no_match
    /\ gu_pc = "call"
    /\ MatchIdle /\ ChunksIdle /\ MergeIdle /\ CellsIdle /\ UmiIdle /\ MatrixIdle

\* line 207: the division by a total of 0 raises
GuardZeroDivision ==
    /\ gu_pc = "call"
    /\ gu_total_reads = 0
    /\ gu_pc' = "ZeroDivisionError"
    /\ UNCHANGED <<gu_no_match, gu_total_reads, gu_no_match0>>
    /\ UNCHANGED notGuard

\* lines 207-212: exit(...)
GuardExit ==
    /\ gu_pc = "call"
    /\ gu_total_reads # 0
    /\ FloatGreater(TrueDiv(SumUnmapped(gu_no_match), gu_total_reads), UnmappedCeiling)
    /\ gu_pc' = "exit"
    /\ UNCHANGED <<gu_no_match, gu_total_reads, gu_no_match0>>
    /\ UNCHANGED notGuard

\* line 207 is false: the function returns None
GuardReturn ==
    /\ gu_pc = "call"
    /\ gu_total_reads # 0
    /\ ~FloatGreater(TrueDiv(SumUnmapped(gu_no_match), gu_total_reads), UnmappedCeiling)
    /\ gu_pc' = "returned"
    /\ UNCHANGED <<gu_no_match, gu_total_reads, gu_no_match0>>
    /\ UNCHANGED notGuard

NextGuard == GuardZeroDivision \/ GuardExit \/ GuardReturn

SpecGuard == InitGuard /\ [][NextGuard]_vars

\* C11: for total_reads > 0 check_unmapped exits exactly when
\* 100 * unmapped > 99 * total_reads and returns otherwise (so not at exactly 99%),
\* and the tally and the total are as they were.
C11_UnmappedGuard ==
    /\ gu_pc = "ZeroDivisionError" => gu_total_reads = 0
    /\ gu_pc \in {"exit", "returned"} =>
        /\ gu_total_reads > 0
        /\ gu_pc = "exit" <=> 100 * SumUnmapped(gu_no_match0) > 99 * gu_total_reads
        /\ gu_no_match = gu_no_match0

\* exactly 99 of 100 reads unmapped: the guard returned
C11_Witness ==
    /\ gu_pc = "returned"
    /\ gu_total_reads = 100
    /\ SumUnmapped(gu_no_match) = 99

\* the rows of both matrices
MatrixRows == 0..(Cardinality(DOMAIN ordered_tags_map) - 1)

\* C13: generate_sparse_matrices completes without an error for any top_cells; a
\* top cell with no entry in final_results gives an all-zero column, and a tag with
\* an empty or missing counter for a cell a zero entry, in both matrices.
C13_ToleratesNoObservations ==
    /\ mx_pc # "KeyError"
    /\ mx_pc = "done" =>
        \A i \in 0..(Len(top_cells) - 1), row \in MatrixRows :
            LET cell_barcode == top_cells[i + 1]
                observed == IF cell_barcode \in DOMAIN mx_final_results
                            THEN {t \in DOMAIN mx_final_results[cell_barcode] :
                                     mx_final_results[cell_barcode][t] # EmptyDict}
                            ELSE {}
            IN (\A t \in observed : ordered_tags_map[t].id # row) =>
                   /\ DokGet(umi_results_matrix, row, i) = 0
                   /\ DokGet(read_results_matrix, row, i) = 0

===========================================================================
